---- MODULE Spec2Model ----
(***************************************************************************)
(* The contact synchronisation pipeline of the website: the retry/timeout  *)
(* executor of src/lib/hubspot-retry.ts and the HubSpot client of          *)
(* src/lib/hubspot.ts, driven by one sequential caller against a remote    *)
(* contact store.                                                          *)
(*                                                                         *)
(* A JavaScript value that may be undefined is a sequence of length <= 1:  *)
(* None is undefined, Some(v) is v.                                        *)
(***************************************************************************)
EXTENDS Integers, Sequences, FiniteSets, Bags, TLC

None == <<>>
Some(v) == <<v>>
Val(o) == o[1]

(***************************************************************************)
(* Bounds of the model.                                                    *)
(***************************************************************************)
\* top-level calls (direct executor calls and client operations) per behaviour
MaxCalls == 2
\* largest maxAttempts a direct caller of retryWithBackoff passes
MaxAttemptsBound == 4
\* timed-out invocations remembered as still running; one beyond the bound is
\* taken never to settle
MaxZombies == 1
\* direct executor calls per behaviour where termination is checked
MaxLiveCalls == 1
\* fetch attempts per behaviour that end otherwise than with a well-formed 200 answer
MaxFaults == 4

(***************************************************************************)
(* Strings: String.prototype.toLowerCase and String.prototype.includes.    *)
(***************************************************************************)
UpperCaseLetters == "ABCDEFGHIJKLMNOPQRSTUVWXYZ"
LowerCaseLetters == "abcdefghijklmnopqrstuvwxyz"

CharAt(s, i) == SubSeq(s, i, i)

UpperCase == {CharAt(UpperCaseLetters, i) : i \in 1..Len(UpperCaseLetters)}
LowerOf ==
  [c \in UpperCase |->
     CharAt(LowerCaseLetters,
            CHOOSE i \in 1..Len(UpperCaseLetters) : CharAt(UpperCaseLetters, i) = c)]

LowerChar(c) == IF c \in UpperCase THEN LowerOf[c] ELSE c

\* the characters of s from position i on, in lower case
RECURSIVE LowerFrom(_, _)
LowerFrom(s, i) ==
  IF i > Len(s) THEN ""
  ELSE LowerChar(CharAt(s, i)) \o LowerFrom(s, i + 1)

toLowerCase(s) == LowerFrom(s, 1)

includes(s, pattern) ==
  \E i \in 1..(Len(s) - Len(pattern) + 1) : SubSeq(s, i, i + Len(pattern) - 1) = pattern

(***************************************************************************)
(* src/lib/hubspot-retry.ts                                                *)
(***************************************************************************)
DefaultMaxAttempts == 3
DefaultTimeoutMs == 10000
DefaultInitialDelayMs == 2000

DEFAULT_OPTIONS ==
  [maxAttempts |-> Some(DefaultMaxAttempts),
   timeoutMs |-> Some(DefaultTimeoutMs),
   initialDelayMs |-> Some(DefaultInitialDelayMs)]

\* retryOptions asking for one more attempt than the default
OneMoreAttempt ==
  [maxAttempts |-> <<4>>, timeoutMs |-> <<>>, initialDelayMs |-> <<>>]

\* retryOptions left out by the caller: every field undefined
NoOptions == [maxAttempts |-> None, timeoutMs |-> None, initialDelayMs |-> None]

\* const config = { ...DEFAULT_OPTIONS, ...options } followed by the destructuring
\* defaults: a field the caller leaves undefined takes the default
OptionOr(o, d) == IF o = None THEN d ELSE Val(o)

MergeConfig(options) ==
  [maxAttempts |-> OptionOr(options.maxAttempts, Val(DEFAULT_OPTIONS.maxAttempts)),
   timeoutMs |-> OptionOr(options.timeoutMs, Val(DEFAULT_OPTIONS.timeoutMs)),
   initialDelayMs |-> OptionOr(options.initialDelayMs, Val(DEFAULT_OPTIONS.initialDelayMs))]

retryablePatterns ==
  {"econnrefused", "enotfound", "etimedout", "timeout after",
   "429", "500", "502", "503", "504"}

isRetryableError(message) ==
  \E pattern \in retryablePatterns : includes(toLowerCase(message), pattern)

\* TimeoutError worded so that no retryable pattern occurs in it
TimeoutError_Reworded(timeoutMs) == "Request timed out (" \o ToString(timeoutMs) \o "ms)"

\* new Error(`Request timeout after ${timeoutMs}ms`)
TimeoutError(timeoutMs) == "Request timeout after " \o ToString(timeoutMs) \o "ms"

UnknownRetryError == "Unknown error in retryWithBackoff"

RECURSIVE Pow2(_)
Pow2(n) == IF n <= 0 THEN 1 ELSE 2 * Pow2(n - 1)

\* a backoff that grows by the delay instead of doubling
BackoffDelay_Linear(initialDelayMs, k) == initialDelayMs * k

\* const delayMs = initialDelayMs * Math.pow(2, attempt - 1)
BackoffDelay(initialDelayMs, k) == initialDelayMs * Pow2(k - 1)

\* errors fetch rejects with when no response arrives
FetchErrors == {"ECONNREFUSED", "fetch failed"}
\* errors an operation given directly to retryWithBackoff rejects with
OpErrors == {"ECONNREFUSED", "ETIMEDOUT", "400 Bad Request",
             "404 Not Found: contact 5001", "503 Service Unavailable"}

\* the timeout and the delay the tests pass
TestTimeoutMs == 100
TestInitialDelayMs == 10

\* isRetryableError of the errors that occur, computed once
Classification ==
  [message \in FetchErrors \cup OpErrors
                \cup {TimeoutError(t) : t \in {DefaultTimeoutMs, TestTimeoutMs}} |->
     isRetryableError(message)]

\* const isRetryable = isRetryableError(lastError)
isRetryable(message) ==
  IF message \in DOMAIN Classification THEN Classification[message]
  ELSE isRetryableError(message)

\* ThrowsNow without the classification: every error is retried until the last attempt
ThrowsNow_OnlyOnLastAttempt(k, maxAttempts, message) == k = maxAttempts

\* if (isLastAttempt || !isRetryable) throw lastError
ThrowsNow(k, maxAttempts, message) ==
  (k = maxAttempts) \/ ~isRetryable(message)

(***************************************************************************)
(* State.                                                                  *)
(***************************************************************************)
VARIABLES
  pc,            \* where the caller is: "idle" or the await it is suspended at
  call,          \* the top-level call in progress or last finished
  result,        \* what the last finished top-level call returned or threw
  nCalls,        \* top-level calls started
  apiKey,        \* process.env.HUBSPOT_API_KEY is set
  shape,         \* the contact shape the remote API answers in
  peer,          \* a second syncContactToHubSpot call running beside the caller's
  deploy,        \* the production server and the run of deploy-production.sh on it
  remote,        \* the remote contact store
  nextId,        \* the next object id the remote API hands out
  zombies,       \* invocations that lost the race to the timer, still running
  netLog,        \* fetch invocations of the current top-level call, in order
  lookup,        \* how getContactByEmail ended in the current top-level call
  rpc,           \* retryWithBackoff: "none", "race", "backoff", "returned", "thrown"
  fn,            \* retryWithBackoff: the operation it was given
  config,        \* retryWithBackoff: config
  attempt,       \* retryWithBackoff: attempt
  lastError,     \* retryWithBackoff: lastError
  returned,      \* retryWithBackoff: the value it returned
  thrown,        \* retryWithBackoff: the error it raised
  fnCalls,       \* times fn() was invoked in this retryWithBackoff call
  attemptErrors, \* the error of each failed attempt, in order
  waits,         \* the backoff delays waited for, in order
  elapsed,       \* ms since the current retryWithBackoff call started
  faults,        \* attempts so far that did not end with a well-formed 200 answer
  synced,        \* emails a finished syncContactToHubSpot call carried
  analyticsUnique, \* form_analytics has a unique index on (form_name, submission_date)
  today,         \* CURRENT_DATE of the database, as a day number
  submissions,   \* website.contact_submissions, row i having id i
  analytics,     \* website.form_analytics, the rows of form 'contact'
  syncLog,       \* website.hubspot_sync_log, in insertion order
  client,        \* the pooled connection of the request: "none", "held", "released"
  post,          \* where the handler of POST /api/contact is, and its request
  task,          \* where the detached syncContactToHubSpotAsync is, and its arguments
  test,          \* where the handler of /api/hubspot/test is
  resp,          \* the response of the last request answered
  dbFaults,      \* storage statements and connects that failed so far
  nPosts         \* requests received so far

execVars == <<rpc, fn, config, attempt, lastError, returned, thrown, fnCalls,
              attemptErrors, waits, elapsed>>
envVars == <<apiKey, shape, peer, deploy>>
storeVars == <<remote, nextId>>
callVars == <<pc, call, result, nCalls, lookup, synced>>
dbVars == <<analyticsUnique, today, submissions, analytics, syncLog, dbFaults>>
webVars == <<dbVars, client, post, task, test, resp, nPosts>>
vars == <<pc, call, result, nCalls, apiKey, shape, peer, deploy,
          remote, nextId, zombies, netLog,
          lookup, rpc, fn, config, attempt, lastError, returned, thrown, fnCalls,
          attemptErrors, waits, elapsed, faults, synced, analyticsUnique, today, submissions,
          analytics, syncLog, client, post, task, test, resp, dbFaults, nPosts>>

Emails == {"jane@example.com", "john@example.com"}

\* "v3": objects carry id (the /crm/v3 endpoints the client calls, and the test mocks);
\* "v1": objects carry vid (the legacy shape declared by interface HubSpotResponse)
Shapes == {"v3", "v1"}

(***************************************************************************)
(* The remote API, as the client's requests see it.                        *)
(***************************************************************************)
EmptyBody == [results |-> None, id |-> None, vid |-> None, message |-> None]

NoEmail == ""
OpFn == [kind |-> "op", email |-> NoEmail, id |-> None]
Request(kind, email, id) == [kind |-> kind, email |-> email, id |-> id]

\* an object of the remote API in the shape it answers in
RemoteObject(id) ==
  IF shape = "v3" THEN [EmptyBody EXCEPT !.id = Some(id)]
  ELSE [EmptyBody EXCEPT !.vid = Some(id)]

Matching(email) == {c \in remote : c.email = email}
MaxIdOf(cs) == CHOOSE c \in cs : \A d \in cs : d.id <= c.id

\* POST /contacts/search with filter email EQ, limit 1, sorted by hs_object_id DESCENDING
SearchResults(email) ==
  IF Matching(email) = {} THEN <<>>
  ELSE <<RemoteObject(MaxIdOf(Matching(email)).id)>>

HttpErrorStatuses == {401, 429}
\* the message field of an error body: absent, or a text that spells the status
ErrorMessages(status) == {None, Some(ToString(status) \o " error")}

\* what the remote API may answer to one request: a status with a JSON body that
\* carries the fields of the API or lacks them, or with a body that is not JSON
Answers ==
  [status : {200}, wellFormed : BOOLEAN, parsable : {TRUE}, message : {None}]
    \cup UNION {[status : {s}, wellFormed : {TRUE}, parsable : {TRUE},
                 message : ErrorMessages(s)] : s \in HttpErrorStatuses}
    \cup [status : {200} \cup HttpErrorStatuses, wellFormed : {FALSE},
          parsable : {FALSE}, message : {None}]
WellAnswered(ans) == ans.status = 200 /\ ans.wellFormed

\* a request that changes the remote store when it is answered 200
Creates(req) == req.kind = "create"

\* a create that is an upsert by email: it adds no second contact for an email
RemoteAfter_UpsertByEmail(req) ==
  IF Creates(req) /\ Matching(req.email) = {}
  THEN remote \cup {[id |-> nextId, email |-> req.email]} ELSE remote

RemoteAfter(req) ==
  IF Creates(req) THEN remote \cup {[id |-> nextId, email |-> req.email]} ELSE remote
NextIdAfter(req) == IF Creates(req) THEN nextId + 1 ELSE nextId

\* the body of a 200 answer; deals and notes are not kept by the model, their
\* answer carries an id
OkBody(req) ==
  IF req.kind = "search" THEN [EmptyBody EXCEPT !.results = Some(SearchResults(req.email))]
  ELSE IF req.kind \in {"create", "deal", "note"} THEN RemoteObject(nextId)
  ELSE EmptyBody

\* the Response fetch resolves with; response.json() rejects when not parsable
ResponseTo(req, ans) ==
  IF ans.status = 200
  THEN [ok |-> TRUE, status |-> 200, parsable |-> ans.parsable,
        body |-> IF ans.wellFormed THEN OkBody(req) ELSE EmptyBody]
  ELSE [ok |-> FALSE, status |-> ans.status, parsable |-> ans.parsable,
        body |-> [EmptyBody EXCEPT !.message = ans.message]]


(***************************************************************************)
(* retryWithBackoff as a state machine: one action per await.              *)
(***************************************************************************)
\* fn() is invoked: a fetch goes on the wire
Invoked(f, log) == IF f.kind = "op" THEN log ELSE Append(log, f)

\* a timed-out invocation whose settling changes nothing is remembered only as running
Harmless == [kind |-> "none", email |-> NoEmail, id |-> None]
Zombie(f) == IF Creates(f) THEN f ELSE Harmless

\* lines 34-47: merge the options, enter the loop, invoke fn for attempt 1
\* lines 87-88: the loop body never ran
retryWithBackoff(f, options, log) ==
  LET c == MergeConfig(options) IN
  /\ fn' = f
  /\ config' = c
  /\ attempt' = 1
  /\ lastError' = None
  /\ returned' = None
  /\ attemptErrors' = <<>>
  /\ waits' = <<>>
  /\ elapsed' = 0
  /\ IF 1 <= c.maxAttempts
     THEN /\ rpc' = "race"
          /\ thrown' = None
          /\ fnCalls' = 1
          /\ netLog' = Invoked(f, log)
     ELSE /\ rpc' = "thrown"
          /\ thrown' = Some(UnknownRetryError)
          /\ fnCalls' = 0
          /\ netLog' = log

\* Catch with lastError assigned once only: the first error is the one kept and raised
Catch_KeepsFirstError(message) ==
  LET kept == IF lastError = None THEN message ELSE Val(lastError) IN
  /\ lastError' = Some(kept)
  /\ attemptErrors' = Append(attemptErrors, message)
  /\ IF ThrowsNow(attempt, config.maxAttempts, message)
     THEN /\ rpc' = "thrown"
          /\ thrown' = Some(kept)
          /\ waits' = waits
     ELSE /\ rpc' = "backoff"
          /\ thrown' = thrown
          /\ waits' = Append(waits, BackoffDelay(config.initialDelayMs, attempt))
  /\ UNCHANGED <<fn, config, attempt, returned, fnCalls>>

\* Catch returning a value instead of raising when the call cannot go on
Catch_SwallowsTerminalError(message) ==
  /\ lastError' = Some(message)
  /\ attemptErrors' = Append(attemptErrors, message)
  /\ IF ThrowsNow(attempt, config.maxAttempts, message)
     THEN /\ rpc' = "returned"
          /\ returned' = Some([data |-> 0])
          /\ waits' = waits
     ELSE /\ rpc' = "backoff"
          /\ returned' = returned
          /\ waits' = Append(waits, BackoffDelay(config.initialDelayMs, attempt))
  /\ UNCHANGED <<fn, config, attempt, thrown, fnCalls>>

\* lines 61-84: the catch block
Catch(message) ==
  /\ lastError' = Some(message)
  /\ attemptErrors' = Append(attemptErrors, message)
  /\ IF ThrowsNow(attempt, config.maxAttempts, message)
     THEN /\ rpc' = "thrown"
          /\ thrown' = Some(message)
          /\ waits' = waits
     ELSE /\ rpc' = "backoff"
          /\ thrown' = thrown
          /\ waits' = Append(waits, BackoffDelay(config.initialDelayMs, attempt))
  /\ UNCHANGED <<fn, config, attempt, returned, fnCalls>>

\* an invocation that runs without a timer beside it: it may take twice the timeout
SettlesWithin_NoTimer(timeoutMs) == {0, 2 * timeoutMs}

\* lines 46-54: how long an attempt may take that the invocation wins: it settles
\* at once, or as late as the instant the timer of timeoutMs would fire
SettlesWithin(timeoutMs) == {0, timeoutMs}

\* the attempt in progress ends after d ms
Settles == \E d \in SettlesWithin(config.timeoutMs) : elapsed' = elapsed + d

\* FnResolves with the backoff wait placed after the attempt whatever its outcome
FnResolves_WaitsBeforeReturning ==
  /\ rpc = "race"
  /\ fn.kind = "op"
  /\ rpc' = "returned"
  /\ returned' = Some([data |-> fnCalls])
  /\ waits' = Append(waits, BackoffDelay(config.initialDelayMs, attempt))
  /\ Settles
  /\ UNCHANGED <<fn, config, attempt, lastError, thrown, fnCalls, attemptErrors>>
  /\ UNCHANGED <<callVars, envVars, webVars, storeVars, zombies, netLog, faults>>

\* lines 46-60: the operation wins the race with a value
FnResolves ==
  /\ rpc = "race"
  /\ fn.kind = "op"
  /\ rpc' = "returned"
  /\ returned' = Some([data |-> fnCalls])
  /\ Settles
  /\ UNCHANGED <<fn, config, attempt, lastError, thrown, fnCalls, attemptErrors, waits>>
  /\ UNCHANGED <<callVars, envVars, webVars, storeVars, zombies, netLog, faults>>

\* lines 46, 61: the operation wins the race with a rejection
FnRejects ==
  /\ rpc = "race"
  /\ fn.kind = "op"
  /\ \E message \in OpErrors : Catch(message)
  /\ Settles
  /\ UNCHANGED <<callVars, envVars, webVars, storeVars, zombies, netLog, faults>>

\* lines 46-60: fetch wins the race with the Response of the remote API
FetchResponds ==
  /\ rpc = "race"
  /\ fn.kind # "op"
  /\ \E ans \in Answers :
       /\ WellAnswered(ans) \/ faults < MaxFaults
       /\ returned' = Some(ResponseTo(fn, ans))
       /\ remote' = IF ans.status = 200 THEN RemoteAfter(fn) ELSE remote
       /\ nextId' = IF ans.status = 200 THEN NextIdAfter(fn) ELSE nextId
       /\ faults' = IF WellAnswered(ans) THEN faults ELSE faults + 1
  /\ rpc' = "returned"
  /\ Settles
  /\ UNCHANGED <<fn, config, attempt, lastError, thrown, fnCalls, attemptErrors, waits>>
  /\ UNCHANGED <<callVars, envVars, webVars, zombies, netLog>>

\* lines 46, 61: fetch wins the race with a rejection (no response arrived)
FetchRejects ==
  /\ rpc = "race"
  /\ fn.kind # "op"
  /\ faults < MaxFaults
  /\ \E message \in FetchErrors : Catch(message)
  /\ Settles
  /\ faults' = faults + 1
  /\ UNCHANGED <<callVars, envVars, webVars, storeVars, zombies, netLog>>

\* lines 48-53, 61: the timer wins the race; nothing cancels the invocation
AttemptTimesOut ==
  /\ rpc = "race"
  /\ fn.kind = "op" \/ faults < MaxFaults
  /\ Catch(TimeoutError(config.timeoutMs))
  /\ elapsed' = elapsed + config.timeoutMs
  /\ zombies' = IF BagCardinality(zombies) < MaxZombies
                THEN zombies (+) SetToBag({Zombie(fn)}) ELSE zombies
  /\ faults' = IF fn.kind = "op" THEN faults ELSE faults + 1
  /\ UNCHANGED <<callVars, envVars, webVars, storeVars, netLog>>

\* line 83 resolves, line 43: attempt++, loop test, fn invoked again (line 47)
\* lines 87-88 when the loop test fails
BackoffElapses ==
  /\ rpc = "backoff"
  /\ attempt' = attempt + 1
  /\ elapsed' = elapsed + waits[Len(waits)]
  /\ IF attempt + 1 <= config.maxAttempts
     THEN /\ rpc' = "race"
          /\ fnCalls' = fnCalls + 1
          /\ netLog' = Invoked(fn, netLog)
          /\ thrown' = thrown
     ELSE /\ rpc' = "thrown"
          /\ thrown' = lastError
          /\ UNCHANGED <<fnCalls, netLog>>
  /\ UNCHANGED <<fn, config, lastError, returned, attemptErrors, waits>>
  /\ UNCHANGED <<callVars, envVars, webVars, storeVars, zombies, faults>>

\* an invocation that lost the race settles later: the remote API carries the
\* request out, nobody reads the answer
LateCompletion ==
  /\ \E z \in BagToSet(zombies) :
       /\ zombies' = zombies (-) SetToBag({z})
       /\ remote' = RemoteAfter(z)
       /\ nextId' = NextIdAfter(z)
  /\ UNCHANGED <<callVars, envVars, webVars, execVars, netLog, faults>>

(***************************************************************************)
(* A caller that hands an operation to retryWithBackoff directly, as the   *)
(* tests of src/__tests__/hubspot.test.ts do.                              *)
(***************************************************************************)

\* the options a direct caller passes: any maxAttempts or none, with the timeout
\* and the delay both left out or both set as the tests set them
RetryOptionChoices ==
  [maxAttempts : {None} \cup {Some(m) : m \in 0..MaxAttemptsBound},
   timeoutMs : {None},
   initialDelayMs : {None}]
    \cup [maxAttempts : {None} \cup {Some(m) : m \in 0..MaxAttemptsBound},
          timeoutMs : {Some(TestTimeoutMs)},
          initialDelayMs : {Some(TestInitialDelayMs)}]

NoCall == [name |-> "none", email |-> NoEmail, first |-> TRUE]
\* first: no finished syncContactToHubSpot call carried this email before
Calling(name, email) == [name |-> name, email |-> email, first |-> email \notin synced]
Finished == rpc \in {"returned", "thrown"}

CallRetryWithBackoffUpTo(maxCalls) ==
  /\ pc = "idle"
  /\ nCalls < maxCalls
  /\ \E options \in RetryOptionChoices : retryWithBackoff(OpFn, options, <<>>)
  /\ pc' = "retryWithBackoff"
  /\ call' = Calling("retryWithBackoff", NoEmail)
  /\ result' = None
  /\ nCalls' = nCalls + 1
  /\ lookup' = None
  /\ UNCHANGED <<envVars, webVars, storeVars, zombies, faults, synced>>

CallRetryWithBackoff == CallRetryWithBackoffUpTo(MaxCalls)

RetryWithBackoffSettles ==
  /\ pc = "retryWithBackoff"
  /\ Finished
  /\ pc' = "idle"
  /\ result' = Some([returned |-> returned, thrown |-> thrown])
  /\ UNCHANGED <<call, nCalls, lookup, synced>>
  /\ UNCHANGED <<envVars, webVars, storeVars, execVars, zombies, netLog, faults>>

(***************************************************************************)
(* src/lib/hubspot.ts                                                      *)
(***************************************************************************)
MissingKeyError == "HUBSPOT_API_KEY environment variable is not set"
\* the SyntaxError response.json() rejects with
JsonSyntaxError == "Unexpected token < in JSON at position 0"

Success(vid) == [success |-> TRUE, vid |-> vid, dealId |-> None, error |-> None]
DealSuccess(id) == [success |-> TRUE, vid |-> None, dealId |-> id, error |-> None]
\* a failure result that drops the error it was made from
Failure_NoText(message) ==
  [success |-> FALSE, vid |-> None, dealId |-> None, error |-> None]

Failure(message) ==
  [success |-> FALSE, vid |-> None, dealId |-> None, error |-> Some(message)]


\* lines 41-47 and the catch of each public operation: the call ends before any fetch
FailsWithoutKey(name, email) ==
  /\ ~apiKey
  /\ pc' = "idle"
  /\ call' = Calling(name, email)
  /\ result' = Some(Failure(MissingKeyError))
  /\ nCalls' = nCalls + 1
  /\ lookup' = None
  /\ netLog' = <<>>
  /\ UNCHANGED <<envVars, storeVars, execVars, zombies, faults>>

\* StartsWith without the credential check before the first fetch
StartsWith_NoKeyCheck(name, email, at, req) ==
  /\ pc' = at
  /\ call' = Calling(name, email)
  /\ result' = None
  /\ nCalls' = nCalls + 1
  /\ lookup' = None
  /\ retryWithBackoff(req, NoOptions, <<>>)
  /\ UNCHANGED <<envVars, storeVars, zombies, faults>>

\* the public operation passes getHubSpotApiKey and awaits its first fetchWithRetry
StartsWith(name, email, at, req) ==
  /\ apiKey
  /\ pc' = at
  /\ call' = Calling(name, email)
  /\ result' = None
  /\ nCalls' = nCalls + 1
  /\ lookup' = None
  /\ retryWithBackoff(req, NoOptions, <<>>)
  /\ UNCHANGED <<envVars, storeVars, zombies, faults>>

\* lines 97-141: what getContactByEmail returns once its fetchWithRetry settled
getContactByEmail ==
  IF rpc = "thrown" THEN None
  ELSE IF ~Val(returned).ok THEN None
  ELSE IF ~Val(returned).parsable THEN None
  ELSE LET contacts == OptionOr(Val(returned).body.results, <<>>)
       IN IF Len(contacts) > 0 THEN Some(contacts[1]) ELSE None

\* how the lookup ended: the status of the answer it got (none when fetchWithRetry
\* raised), the fetches it took, and what getContactByEmail returned
Looked ==
  [status |-> IF rpc = "thrown" THEN None ELSE Some(Val(returned).status),
   attempts |-> fnCalls,
   contact |-> getContactByEmail]

\* existingContact?.vid as a condition
HasVid(contact) ==
  /\ contact # None
  /\ Val(contact).vid # None
  /\ Val(Val(contact).vid) # 0

\* error.message || fallback
MessageOr(body, fallback) == OptionOr(body.message, fallback)

\* ErrorOf without the body: the fixed text of the operation whatever the answer says
ErrorOf_FallbackOnly(response, fallback) == fallback

\* const error = await response.json(); return {success: false, error: error.message || fallback}
\* with the catch block of the operation when json() rejects
ErrorOf(response, fallback) ==
  IF response.parsable THEN MessageOr(response.body, fallback) ELSE JsonSyntaxError

\* createContact reading the legacy field, as the lookup does: vid: data.vid
createContact_ReadsVid ==
  IF rpc = "thrown" THEN Failure(Val(thrown))
  ELSE IF ~Val(returned).ok
       THEN Failure(ErrorOf(Val(returned), "Failed to create contact"))
       ELSE IF ~Val(returned).parsable THEN Failure(JsonSyntaxError)
       ELSE Success(Val(returned).body.vid)

\* lines 150-184: what createContact returns once its fetchWithRetry settled
createContact ==
  IF rpc = "thrown" THEN Failure(Val(thrown))
  ELSE IF ~Val(returned).ok
       THEN Failure(ErrorOf(Val(returned), "Failed to create contact"))
       ELSE IF ~Val(returned).parsable THEN Failure(JsonSyntaxError)
       ELSE Success(Val(returned).body.id)

\* lines 195-228: what updateContact(vid, ...) returns once its fetchWithRetry settled
updateContact(vid) ==
  IF rpc = "thrown" THEN Failure(Val(thrown))
  ELSE IF ~Val(returned).ok
       THEN Failure(ErrorOf(Val(returned), "Failed to update contact"))
       ELSE Success(vid)

\* lines 52-76
syncContactToHubSpotUpTo(maxCalls) ==
  /\ pc = "idle"
  /\ nCalls < maxCalls
  /\ \E email \in Emails :
       \/ /\ FailsWithoutKey("syncContactToHubSpot", email)
          /\ synced' = synced \cup {email}
       \/ /\ StartsWith("syncContactToHubSpot", email, "sync:getContactByEmail",
                        Request("search", email, None))
          /\ synced' = synced
  /\ UNCHANGED webVars

syncContactToHubSpot == syncContactToHubSpotUpTo(MaxCalls)

\* lines 76-80: the lookup returned a contact with a vid
SyncUpdates ==
  /\ pc = "sync:getContactByEmail"
  /\ Finished
  /\ HasVid(getContactByEmail)
  /\ pc' = "sync:updateContact"
  /\ lookup' = Some(Looked)
  /\ retryWithBackoff(Request("update", call.email, Val(getContactByEmail).vid),
                      NoOptions, netLog)
  /\ UNCHANGED <<call, result, nCalls, synced>>
  /\ UNCHANGED <<envVars, webVars, storeVars, zombies, faults>>

\* lines 76-84: the lookup returned null or a contact without a vid
SyncCreates ==
  /\ pc = "sync:getContactByEmail"
  /\ Finished
  /\ ~HasVid(getContactByEmail)
  /\ pc' = "sync:createContact"
  /\ lookup' = Some(Looked)
  /\ retryWithBackoff(Request("create", call.email, None), NoOptions, netLog)
  /\ UNCHANGED <<call, result, nCalls, synced>>
  /\ UNCHANGED <<envVars, webVars, storeVars, zombies, faults>>

\* line 80 returns
SyncUpdateReturns ==
  /\ pc = "sync:updateContact"
  /\ Finished
  /\ pc' = "idle"
  /\ result' = Some(updateContact(fn.id))
  /\ lookup' = lookup
  /\ synced' = synced \cup {call.email}
  /\ UNCHANGED <<call, nCalls>>
  /\ UNCHANGED <<envVars, webVars, storeVars, execVars, zombies, netLog, faults>>

\* line 83 returns
SyncCreateReturns ==
  /\ pc = "sync:createContact"
  /\ Finished
  /\ pc' = "idle"
  /\ result' = Some(createContact)
  /\ lookup' = lookup
  /\ synced' = synced \cup {call.email}
  /\ UNCHANGED <<call, nCalls>>
  /\ UNCHANGED <<envVars, webVars, storeVars, execVars, zombies, netLog, faults>>

(***************************************************************************)
(* A second syncContactToHubSpot call running beside the caller's: the     *)
(* detached task of another request (DEPLOYMENT_COMPLETE.md:464-472). It    *)
(* takes one step per fetchWithRetry that settles; the attempts inside its *)
(* fetchWithRetry are those of the executor above and are not repeated.    *)
(***************************************************************************)
NoPeer == [at |-> "idle", email |-> NoEmail, looked |-> None, result |-> None]

\* how a fetchWithRetry of the peer settled: with a Response or with the error raised
Resolved(response) == [rpc |-> "returned", returned |-> Some(response), thrown |-> None]
Rejected(message) == [rpc |-> "thrown", returned |-> None, thrown |-> Some(message)]

\* the ways a fetchWithRetry of the peer may settle for a request, each with
\* whether the remote API answered 200 and whether the answer counts as a fault
PeerOutcomes(req) ==
  {[settled |-> Resolved(ResponseTo(req, ans)), accepted |-> ans.status = 200,
    fault |-> IF WellAnswered(ans) THEN 0 ELSE 1] : ans \in Answers}
    \cup {[settled |-> Rejected(message), accepted |-> FALSE, fault |-> 1] :
             message \in FetchErrors \cup {TimeoutError(MergeConfig(NoOptions).timeoutMs)}}
PeerMaySettle(o) == o.fault = 0 \/ faults < MaxFaults

\* lines 97-141 on a settled fetchWithRetry
ContactIn(o) ==
  IF o.rpc = "thrown" THEN None
  ELSE IF ~Val(o.returned).ok THEN None
  ELSE IF ~Val(o.returned).parsable THEN None
  ELSE LET contacts == OptionOr(Val(o.returned).body.results, <<>>)
       IN IF Len(contacts) > 0 THEN Some(contacts[1]) ELSE None

\* lines 150-184 on a settled fetchWithRetry
CreatedBy(o) ==
  IF o.rpc = "thrown" THEN Failure(Val(o.thrown))
  ELSE IF ~Val(o.returned).ok
       THEN Failure(ErrorOf(Val(o.returned), "Failed to create contact"))
       ELSE IF ~Val(o.returned).parsable THEN Failure(JsonSyntaxError)
       ELSE Success(Val(o.returned).body.id)

\* lines 195-228 on a settled fetchWithRetry
UpdatedBy(o, vid) ==
  IF o.rpc = "thrown" THEN Failure(Val(o.thrown))
  ELSE IF ~Val(o.returned).ok
       THEN Failure(ErrorOf(Val(o.returned), "Failed to update contact"))
       ELSE Success(vid)

\* lines 52-76 in the peer: without the key it returns the failure at once
PeerStarts ==
  /\ peer.at = "idle"
  /\ \E email \in Emails :
       peer' = IF apiKey
               THEN [NoPeer EXCEPT !.at = "sync:getContactByEmail", !.email = email]
               ELSE [NoPeer EXCEPT !.at = "done", !.email = email,
                                   !.result = Some(Failure(MissingKeyError))]
  /\ UNCHANGED <<apiKey, shape, deploy, callVars, webVars, storeVars, execVars, zombies,
                 netLog, faults>>

\* lines 76-84 in the peer: its lookup settled, it goes on to update or to create
PeerLookupReturns ==
  /\ peer.at = "sync:getContactByEmail"
  /\ \E o \in PeerOutcomes(Request("search", peer.email, None)) :
       /\ PeerMaySettle(o)
       /\ peer' = [peer EXCEPT
                     !.looked = Some([status |-> IF o.settled.rpc = "thrown" THEN None
                                                ELSE Some(Val(o.settled.returned).status),
                                     contact |-> ContactIn(o.settled)]),
                     !.at = IF HasVid(ContactIn(o.settled))
                            THEN "sync:updateContact" ELSE "sync:createContact"]
       /\ faults' = faults + o.fault
  /\ UNCHANGED <<apiKey, shape, deploy, callVars, webVars, storeVars, execVars, zombies, netLog>>

\* line 83 in the peer: its create settled
PeerCreateReturns ==
  /\ peer.at = "sync:createContact"
  /\ LET req == Request("create", peer.email, None) IN
     \E o \in PeerOutcomes(req) :
       /\ PeerMaySettle(o)
       /\ peer' = [peer EXCEPT !.at = "done", !.result = Some(CreatedBy(o.settled))]
       /\ remote' = IF o.accepted THEN RemoteAfter(req) ELSE remote
       /\ nextId' = IF o.accepted THEN NextIdAfter(req) ELSE nextId
       /\ faults' = faults + o.fault
  /\ UNCHANGED <<apiKey, shape, deploy, callVars, webVars, execVars, zombies, netLog>>

\* line 80 in the peer: its update settled
PeerUpdateReturns ==
  /\ peer.at = "sync:updateContact"
  /\ LET vid == Val(Val(peer.looked).contact).vid
         req == Request("update", peer.email, vid) IN
     \E o \in PeerOutcomes(req) :
       /\ PeerMaySettle(o)
       /\ peer' = [peer EXCEPT !.at = "done", !.result = Some(UpdatedBy(o.settled, vid))]
       /\ remote' = IF o.accepted THEN RemoteAfter(req) ELSE remote
       /\ nextId' = IF o.accepted THEN NextIdAfter(req) ELSE nextId
       /\ faults' = faults + o.fault
  /\ UNCHANGED <<apiKey, shape, deploy, callVars, webVars, execVars, zombies, netLog>>

\* lines 255-270: what addContactToList returns once its fetchWithRetry settled
addContactToListResult ==
  IF rpc = "thrown" THEN Failure(Val(thrown))
  ELSE IF ~Val(returned).ok
       THEN Failure(ErrorOf(Val(returned), "Failed to add contact to list"))
       ELSE Success(None)

\* lines 307-326: what createHubSpotDeal returns once its fetchWithRetry settled
createHubSpotDealResult ==
  IF rpc = "thrown" THEN Failure(Val(thrown))
  ELSE IF ~Val(returned).ok
       THEN Failure(ErrorOf(Val(returned), "Failed to create deal"))
       ELSE IF ~Val(returned).parsable THEN Failure(JsonSyntaxError)
       ELSE DealSuccess(Val(returned).body.id)

\* lines 370-385: what logActivityToHubSpot returns once the note's fetchWithRetry settled
logActivityResult ==
  IF rpc = "thrown" THEN Failure(Val(thrown))
  ELSE IF ~Val(returned).ok
       THEN Failure(ErrorOf(Val(returned), "Failed to log activity"))
       ELSE Success(None)

\* lines 234-253
addContactToList ==
  /\ pc = "idle"
  /\ nCalls < MaxCalls
  /\ \E email \in Emails :
       \/ FailsWithoutKey("addContactToList", email)
       \/ StartsWith("addContactToList", email, "list:fetchWithRetry",
                     Request("list", email, None))
  /\ synced' = synced
  /\ UNCHANGED webVars

\* lines 255-270
AddContactToListReturns ==
  /\ pc = "list:fetchWithRetry"
  /\ Finished
  /\ pc' = "idle"
  /\ result' = Some(addContactToListResult)
  /\ lookup' = lookup
  /\ UNCHANGED <<call, nCalls, synced>>
  /\ UNCHANGED <<envVars, webVars, storeVars, execVars, zombies, netLog, faults>>

\* lines 276-305
createHubSpotDeal ==
  /\ pc = "idle"
  /\ nCalls < MaxCalls
  /\ \E email \in Emails :
       \/ FailsWithoutKey("createHubSpotDeal", email)
       \/ StartsWith("createHubSpotDeal", email, "deal:fetchWithRetry",
                     Request("deal", email, None))
  /\ synced' = synced
  /\ UNCHANGED webVars

\* lines 307-326
CreateHubSpotDealReturns ==
  /\ pc = "deal:fetchWithRetry"
  /\ Finished
  /\ pc' = "idle"
  /\ result' = Some(createHubSpotDealResult)
  /\ lookup' = lookup
  /\ UNCHANGED <<call, nCalls, synced>>
  /\ UNCHANGED <<envVars, webVars, storeVars, execVars, zombies, netLog, faults>>

\* lines 332-341
logActivityToHubSpot ==
  /\ pc = "idle"
  /\ nCalls < MaxCalls
  /\ \E email \in Emails :
       \/ FailsWithoutKey("logActivityToHubSpot", email)
       \/ StartsWith("logActivityToHubSpot", email, "activity:getContactByEmail",
                     Request("search", email, None))
  /\ synced' = synced
  /\ UNCHANGED webVars

\* lines 342-347: the lookup gave no contact with a vid
ActivityContactNotFound ==
  /\ pc = "activity:getContactByEmail"
  /\ Finished
  /\ ~HasVid(getContactByEmail)
  /\ pc' = "idle"
  /\ result' = Some(Failure("Contact not found in HubSpot"))
  /\ lookup' = Some(Looked)
  /\ UNCHANGED <<call, nCalls, synced>>
  /\ UNCHANGED <<envVars, webVars, storeVars, execVars, zombies, netLog, faults>>

\* lines 349-368: the note is posted, associated with contact.vid
ActivityCreatesNote ==
  /\ pc = "activity:getContactByEmail"
  /\ Finished
  /\ HasVid(getContactByEmail)
  /\ pc' = "activity:fetchWithRetry"
  /\ lookup' = Some(Looked)
  /\ retryWithBackoff(Request("note", call.email, Val(getContactByEmail).vid),
                      NoOptions, netLog)
  /\ UNCHANGED <<call, result, nCalls, synced>>
  /\ UNCHANGED <<envVars, webVars, storeVars, zombies, faults>>

\* lines 370-385
LogActivityReturns ==
  /\ pc = "activity:fetchWithRetry"
  /\ Finished
  /\ pc' = "idle"
  /\ result' = Some(logActivityResult)
  /\ lookup' = lookup
  /\ UNCHANGED <<call, nCalls, synced>>
  /\ UNCHANGED <<envVars, webVars, storeVars, execVars, zombies, netLog, faults>>

(***************************************************************************)
(* The database of src/scripts/init-db.sql, as the statements of the       *)
(* contact route see it.                                                   *)
(***************************************************************************)
\* requests received per behaviour
MaxPosts == 1
\* storage statements and connects that fail per behaviour
MaxDbFaults == 1
\* days the behaviour spans
MaxDays == 2

\* a row of website.contact_submissions as INSERT ... VALUES (..., 'new') leaves it
NewSubmission_Synced(email) ==
  [email |-> email, hubspot_synced |-> TRUE, hubspot_contact_id |-> None,
   created_at |-> today]

\* a row of website.contact_submissions with the column defaults
NewSubmission(email) ==
  [email |-> email, hubspot_synced |-> FALSE, hubspot_contact_id |-> None,
   created_at |-> today]

\* a row of website.form_analytics with the column defaults
AnalyticsRow(date) ==
  [submission_date |-> date, total_submissions |-> 0, successful_submissions |-> 0,
   failed_submissions |-> 0, hubspot_synced_count |-> 0]

TodaysRows == {r \in analytics : r.submission_date = today}

\* INSERT INTO website.form_analytics ... VALUES ('contact', CURRENT_DATE, 1, 1)
\* ON CONFLICT (form_name, submission_date) DO UPDATE SET total = total + 1, column = column + 1
UpsertAnalytics(column) ==
  IF TodaysRows = {}
  THEN analytics \cup
         {[AnalyticsRow(today) EXCEPT !.total_submissions = 1, ![column] = 1]}
  ELSE {IF r \in TodaysRows
        THEN [r EXCEPT !.total_submissions = @ + 1, ![column] = @ + 1]
        ELSE r : r \in analytics}

\* UPDATE website.form_analytics SET hubspot_synced_count = hubspot_synced_count + 1
\* WHERE form_name = 'contact' AND submission_date = CURRENT_DATE
CountSynced ==
  {IF r \in TodaysRows THEN [r EXCEPT !.hubspot_synced_count = @ + 1] ELSE r :
     r \in analytics}

\* UPDATE website.contact_submissions SET hubspot_synced = TRUE, hubspot_contact_id = $1
\* WHERE id = $2
MarkSynced(id, vid) ==
  [submissions EXCEPT ![id] = [@ EXCEPT !.hubspot_synced = TRUE,
                                        !.hubspot_contact_id = vid]]

\* a row of website.hubspot_sync_log written without its error_message
SyncLogRow_NoMessage(id, email, success, response, message) ==
  [contact_id |-> id, email |-> email, sync_type |-> "create", success |-> success,
   hubspot_response |-> response, error_message |-> None]

\* a row of website.hubspot_sync_log
SyncLogRow(id, email, success, response, message) ==
  [contact_id |-> id, email |-> email, sync_type |-> "create", success |-> success,
   hubspot_response |-> response, error_message |-> message]

\* String(error) of the error a failed statement rejects with
DbErrorText == "Error: Connection terminated unexpectedly"

\* a statement runs, or fails
StatementRuns == dbFaults' = dbFaults
StatementFails == dbFaults < MaxDbFaults /\ dbFaults' = dbFaults + 1

\* the date changes, between two requests or while the sync task awaits the remote API
Midnight ==
  /\ today < MaxDays
  /\ \/ post.at = "idle" /\ test.at = "idle" /\ task.at \in {"none", "done"}
     \/ task.at = "sync" /\ pc # "idle"
  /\ today' = today + 1
  /\ UNCHANGED <<analyticsUnique, submissions, analytics, syncLog, dbFaults>>
  /\ UNCHANGED <<client, post, task, test, resp, nPosts>>
  /\ UNCHANGED <<callVars, envVars, storeVars, execVars, zombies, netLog, faults>>

(***************************************************************************)
(* src/DEPLOYMENT_COMPLETE.md, lines 381-660: POST /api/contact and the    *)
(* detached syncContactToHubSpotAsync.                                     *)
(***************************************************************************)
\* RegExp \s and the characters [^\s@] excludes
Whitespace == {" ", "\t", "\n"}
NotSpaceOrAt(c) == c \notin Whitespace \cup {"@"}

\* a test that asks only for an @ with something on either side
emailRegexTest_AnyAt(s) ==
  \E i \in 1..Len(s) : 1 < i /\ i < Len(s) /\ CharAt(s, i) = "@"

\* /^[^\s@]+@[^\s@]+\.[^\s@]+$/.test(s)
emailRegexTest(s) ==
  \E i, j \in 1..Len(s) :
    /\ 1 < i /\ i + 1 < j /\ j < Len(s)
    /\ CharAt(s, i) = "@"
    /\ CharAt(s, j) = "."
    /\ \A k \in (1..Len(s)) \ {i} : NotSpaceOrAt(CharAt(s, k))

\* !field
Missing(field) == field = None \/ Val(field) = ""

EmailInputs == {"jane@example.com", "jane@example", "jane doe@example.com", ""}
Bodies ==
  [name : {None, Some("Jane Doe")},
   email : {None} \cup {Some(e) : e \in EmailInputs},
   message : {None, Some("Hello")}]
NoBody == [name |-> None, email |-> None, message |-> None]

IdlePost == [at |-> "idle", body |-> NoBody, id |-> None]
NoTask == [at |-> "none", id |-> 0, email |-> NoEmail, hubspotResult |-> None]
IdleTest == [at |-> "idle", method |-> "GET", body |-> "email"]
\* no handler and no sync task is running
Quiet == post.at = "idle" /\ test.at = "idle" /\ task.at \in {"none", "done"}

\* NextResponse.json(body, {status})
Response(status, error, submissionId, createdAt) ==
  [status |-> status, error |-> error, submissionId |-> submissionId,
   createdAt |-> createdAt]
ProcessingError == "Failed to process your request. Please try again later."

\* a call of a public operation of the client begins: it fails on the missing
\* credential or suspends at its first fetchWithRetry
Calls(name, email, at, req) ==
  \/ FailsWithoutKey(name, email)
  \/ StartsWith(name, email, at, req)

\* lines 409-441: the body is read and validated, the connection is taken
PostReceives ==
  /\ Quiet
  /\ nPosts < MaxPosts
  /\ nPosts' = nPosts + 1
  /\ \/ \* request.json() rejects
        /\ resp' = Some(Response(500, Some(ProcessingError), None, None))
        /\ post' = IdlePost
        /\ UNCHANGED <<client, dbFaults>>
     \/ \E body \in Bodies :
          IF Missing(body.name) \/ Missing(body.email) \/ Missing(body.message)
          THEN /\ resp' = Some(Response(400,
                                 Some("Missing required fields: name, email, message"),
                                 None, None))
               /\ post' = [IdlePost EXCEPT !.body = body]
               /\ UNCHANGED <<client, dbFaults>>
          ELSE IF ~emailRegexTest(Val(body.email))
          THEN /\ resp' = Some(Response(400, Some("Invalid email address"), None, None))
               /\ post' = [IdlePost EXCEPT !.body = body]
               /\ UNCHANGED <<client, dbFaults>>
          ELSE \/ /\ StatementRuns
                  /\ client' = "held"
                  /\ post' = [at |-> "insert", body |-> body, id |-> None]
                  /\ resp' = None
               \/ /\ StatementFails
                  /\ resp' = Some(Response(500, Some(ProcessingError), None, None))
                  /\ post' = [IdlePost EXCEPT !.body = body]
                  /\ UNCHANGED client
  /\ UNCHANGED <<analyticsUnique, today, submissions, analytics, syncLog, task, test>>
  /\ UNCHANGED <<callVars, envVars, storeVars, execVars, zombies, netLog, faults>>

\* lines 444-452: the submission row is inserted
PostInsertsSubmission ==
  /\ post.at = "insert"
  /\ \/ /\ StatementRuns
        /\ submissions' = Append(submissions, NewSubmission(Val(post.body.email)))
        /\ post' = [post EXCEPT !.at = "analytics", !.id = Some(Len(submissions) + 1)]
     \/ /\ StatementFails
        /\ post' = [post EXCEPT !.at = "catch"]
        /\ UNCHANGED submissions
  /\ UNCHANGED <<analyticsUnique, today, analytics, syncLog>>
  /\ UNCHANGED <<client, task, test, resp, nPosts>>
  /\ UNCHANGED <<callVars, envVars, storeVars, execVars, zombies, netLog, faults>>

\* lines 455-472: the analytics upsert, which the database rejects when no unique
\* index matches its conflict target; then syncContactToHubSpotAsync is called and
\* runs up to its first await
PostUpdatesAnalytics ==
  /\ post.at = "analytics"
  /\ \/ /\ analyticsUnique
        /\ StatementRuns
        /\ analytics' = UpsertAnalytics("successful_submissions")
        /\ post' = [post EXCEPT !.at = "respond"]
        /\ task' = [at |-> "sync", id |-> Val(post.id),
                    email |-> Val(post.body.email), hubspotResult |-> None]
        /\ Calls("syncContactToHubSpot", Val(post.body.email),
                 "sync:getContactByEmail", Request("search", Val(post.body.email), None))
        /\ synced' = IF apiKey THEN synced ELSE synced \cup {Val(post.body.email)}
     \/ /\ \/ ~analyticsUnique /\ StatementRuns
           \/ StatementFails
        /\ post' = [post EXCEPT !.at = "catch"]
        /\ UNCHANGED <<analytics, task, callVars, execVars, netLog>>
        /\ UNCHANGED <<envVars, storeVars, zombies, faults>>
  /\ UNCHANGED <<analyticsUnique, today, submissions, syncLog>>
  /\ UNCHANGED <<client, test, resp, nPosts>>

\* lines 474-500 and 527-531: the response is returned and the connection released,
\* whatever the sync task is doing
PostResponds ==
  /\ post.at = "respond"
  /\ resp' = Some(Response(201, None, post.id,
                           Some(submissions[Val(post.id)].created_at)))
  /\ client' = "released"
  /\ post' = IdlePost
  /\ UNCHANGED <<dbVars, task, test, nPosts>>
  /\ UNCHANGED <<callVars, envVars, storeVars, execVars, zombies, netLog, faults>>

\* lines 501-531: the catch block counts a failed submission, answers 500 and
\* releases the connection
PostCatch ==
  /\ post.at = "catch"
  /\ \/ /\ StatementRuns
        /\ analytics' = IF analyticsUnique THEN UpsertAnalytics("failed_submissions")
                        ELSE analytics
     \/ /\ StatementFails
        /\ UNCHANGED analytics
  /\ resp' = Some(Response(500, Some(ProcessingError), None, None))
  /\ client' = "released"
  /\ post' = IdlePost
  /\ UNCHANGED <<analyticsUnique, today, submissions, syncLog>>
  /\ UNCHANGED <<task, test, nPosts>>
  /\ UNCHANGED <<callVars, envVars, storeVars, execVars, zombies, netLog, faults>>

\* line 660: the task returns and the results and calls it held are gone
TaskEnds ==
  /\ pc' = "idle"
  /\ call' = NoCall
  /\ result' = None
  /\ lookup' = None
  /\ netLog' = <<>>
  /\ rpc' = "none"
  /\ fn' = OpFn
  /\ config' = MergeConfig(NoOptions)
  /\ attempt' = 0
  /\ elapsed' = 0
  /\ lastError' = None
  /\ returned' = None
  /\ thrown' = None
  /\ fnCalls' = 0
  /\ attemptErrors' = <<>>
  /\ waits' = <<>>
  /\ UNCHANGED <<nCalls, synced>>

\* the await of syncContactToHubSpot (line 588) has its result
SyncReturnedToTask ==
  task.at = "sync" /\ pc = "idle" /\ call.name = "syncContactToHubSpot"

\* lines 602-611: the submission is marked synced
TaskMarksSynced ==
  /\ SyncReturnedToTask
  /\ Val(result).success
  /\ \/ /\ StatementRuns
        /\ submissions' = MarkSynced(task.id, Val(result).vid)
        /\ task' = [task EXCEPT !.at = "success:log", !.hubspotResult = result]
     \/ /\ StatementFails
        /\ task' = [task EXCEPT !.at = "catch", !.hubspotResult = result]
        /\ UNCHANGED submissions
  /\ UNCHANGED <<analyticsUnique, today, analytics, syncLog>>
  /\ UNCHANGED <<client, post, test, resp, nPosts>>
  /\ UNCHANGED <<callVars, envVars, storeVars, execVars, zombies, netLog, faults>>

\* lines 613-618: the successful sync is logged
TaskLogsSuccess ==
  /\ task.at = "success:log"
  /\ \/ /\ StatementRuns
        /\ syncLog' = Append(syncLog, SyncLogRow(task.id, task.email, TRUE,
                                                 task.hubspotResult, None))
        /\ task' = [task EXCEPT !.at = "success:analytics"]
     \/ /\ StatementFails
        /\ task' = [task EXCEPT !.at = "catch"]
        /\ UNCHANGED syncLog
  /\ UNCHANGED <<analyticsUnique, today, submissions, analytics>>
  /\ UNCHANGED <<client, post, test, resp, nPosts>>
  /\ UNCHANGED <<callVars, envVars, storeVars, execVars, zombies, netLog, faults>>

\* line 641: logActivityToHubSpot is called
TaskCallsLogActivity ==
  /\ Calls("logActivityToHubSpot", task.email, "activity:getContactByEmail",
           Request("search", task.email, None))
  /\ synced' = synced

\* lines 620-628, 640-645: the synced count of today's row is incremented, then
\* the activity is logged
TaskCountsSynced ==
  /\ task.at = "success:analytics"
  /\ \/ /\ StatementRuns
        /\ analytics' = CountSynced
        /\ task' = [task EXCEPT !.at = "activity"]
        /\ TaskCallsLogActivity
     \/ /\ StatementFails
        /\ task' = [task EXCEPT !.at = "catch"]
        /\ UNCHANGED <<analytics, callVars, execVars, netLog>>
        /\ UNCHANGED <<envVars, storeVars, zombies, faults>>
  /\ UNCHANGED <<analyticsUnique, today, submissions, syncLog>>
  /\ UNCHANGED <<client, post, test, resp, nPosts>>

\* lines 629-645: the failed sync is logged with its error, then the activity is logged
TaskLogsFailure ==
  /\ SyncReturnedToTask
  /\ ~Val(result).success
  /\ \/ /\ StatementRuns
        /\ syncLog' = Append(syncLog, SyncLogRow(task.id, task.email, FALSE, None,
                                                 Val(result).error))
        /\ task' = [task EXCEPT !.at = "activity", !.hubspotResult = result]
        /\ TaskCallsLogActivity
     \/ /\ StatementFails
        /\ task' = [task EXCEPT !.at = "catch", !.hubspotResult = result]
        /\ UNCHANGED <<syncLog, callVars, execVars, netLog>>
        /\ UNCHANGED <<envVars, storeVars, zombies, faults>>
  /\ UNCHANGED <<analyticsUnique, today, submissions, analytics>>
  /\ UNCHANGED <<client, post, test, resp, nPosts>>

\* TaskActivityReturns treating a failed activity log as a failed sync
TaskActivityReturns_RecordsFailure ==
  /\ task.at = "activity"
  /\ pc = "idle"
  /\ task' = [task EXCEPT !.at = "done"]
  /\ TaskEnds
  /\ syncLog' = IF Val(result).success THEN syncLog
                ELSE Append(syncLog, SyncLogRow(task.id, task.email, FALSE, None,
                                                Val(result).error))
  /\ UNCHANGED <<analyticsUnique, today, submissions, analytics, dbFaults>>
  /\ UNCHANGED <<client, post, test, resp, nPosts>>
  /\ UNCHANGED <<envVars, storeVars, zombies, faults>>

\* lines 641-645, 660: logActivityToHubSpot returned, the task ends
TaskActivityReturns ==
  /\ task.at = "activity"
  /\ pc = "idle"
  /\ task' = [task EXCEPT !.at = "done"]
  /\ TaskEnds
  /\ UNCHANGED <<dbVars, client, post, test, resp, nPosts>>
  /\ UNCHANGED <<envVars, storeVars, zombies, faults>>

\* TaskCatch that also puts the submission back to unsynced
TaskCatch_ResetsSubmission ==
  /\ task.at = "catch"
  /\ \/ /\ StatementRuns
        /\ syncLog' = Append(syncLog, SyncLogRow(task.id, task.email, FALSE, None,
                                                 Some(DbErrorText)))
     \/ /\ StatementFails
        /\ UNCHANGED syncLog
  /\ submissions' = [submissions EXCEPT ![task.id] =
                       [@ EXCEPT !.hubspot_synced = FALSE, !.hubspot_contact_id = None]]
  /\ task' = [task EXCEPT !.at = "done"]
  /\ TaskEnds
  /\ UNCHANGED <<analyticsUnique, today, analytics>>
  /\ UNCHANGED <<client, post, test, resp, nPosts>>
  /\ UNCHANGED <<envVars, storeVars, zombies, faults>>

\* lines 646-659: a statement of the task failed; the error is logged as a failed
\* sync, and a failure of that statement is dropped
TaskCatch ==
  /\ task.at = "catch"
  /\ \/ /\ StatementRuns
        /\ syncLog' = Append(syncLog, SyncLogRow(task.id, task.email, FALSE, None,
                                                 Some(DbErrorText)))
     \/ /\ StatementFails
        /\ UNCHANGED syncLog
  /\ task' = [task EXCEPT !.at = "done"]
  /\ TaskEnds
  /\ UNCHANGED <<analyticsUnique, today, submissions, analytics>>
  /\ UNCHANGED <<client, post, test, resp, nPosts>>
  /\ UNCHANGED <<envVars, storeVars, zombies, faults>>

(***************************************************************************)
(* src/unnamed/part_003: GET and POST /api/hubspot/test.                   *)
(***************************************************************************)
\* `test-${Date.now()}@aurigraph.io`
TestEmail == "test-1767052800000@aurigraph.io"

\* the bodies POST is sent: not JSON, JSON without an email, JSON with one
TestBodies == {"not json", "no email", "email"}

\* lines 50-74 and 173-193: the status the sync result is answered with
TestStatus(syncResult) ==
  IF syncResult.success THEN 200
  ELSE IF \/ includes(Val(syncResult.error), "401")
          \/ includes(Val(syncResult.error), "Unauthorized")
       THEN 401
       ELSE 500

\* lines 20-48 and 131-171: the credential and the body are checked, the sync is called
TestReceives ==
  /\ Quiet
  /\ nPosts < MaxPosts
  /\ nPosts' = nPosts + 1
  /\ \E method \in {"GET", "POST"}, body \in TestBodies :
       /\ method = "GET" => body = "email"
       /\ IF ~apiKey
          THEN /\ resp' = Some(Response(401, Some(IF method = "GET" THEN MissingKeyError
                                                  ELSE "HUBSPOT_API_KEY is not configured"),
                                        None, None))
               /\ test' = [at |-> "idle", method |-> method, body |-> body]
               /\ UNCHANGED <<callVars, execVars, netLog>>
          ELSE IF method = "POST" /\ body = "not json"
          THEN /\ resp' = Some(Response(400, Some("Invalid JSON in request body"), None, None))
               /\ test' = [at |-> "idle", method |-> method, body |-> body]
               /\ UNCHANGED <<callVars, execVars, netLog>>
          ELSE IF method = "POST" /\ body = "no email"
          THEN /\ resp' = Some(Response(400, Some("Missing required field: email"), None, None))
               /\ test' = [at |-> "idle", method |-> method, body |-> body]
               /\ UNCHANGED <<callVars, execVars, netLog>>
          ELSE \E email \in IF method = "GET" THEN {TestEmail} ELSE Emails :
                  /\ StartsWith("syncContactToHubSpot", email, "sync:getContactByEmail",
                                Request("search", email, None))
                  /\ test' = [at |-> "sync", method |-> method, body |-> body]
                  /\ resp' = None
                  /\ synced' = synced
  /\ UNCHANGED <<envVars, storeVars, zombies, faults>>
  /\ UNCHANGED <<dbVars, client, post, task>>

\* lines 50-104 and 173-208: the sync returned, its result is mapped to a status
TestResponds ==
  /\ test.at = "sync"
  /\ pc = "idle"
  /\ resp' = Some(Response(TestStatus(Val(result)), Val(result).error, None, None))
  /\ test' = [test EXCEPT !.at = "idle"]
  /\ UNCHANGED <<dbVars, client, post, task, nPosts>>
  /\ UNCHANGED <<callVars, envVars, storeVars, execVars, zombies, netLog, faults>>

(***************************************************************************)
(* src/scripts/deploy-production.sh, run without --dry-run on a server     *)
(* whose nginx.conf names one upstream, app_blue or app_green.             *)
(***************************************************************************)
HEALTH_CHECK_TIMEOUT == 300
HEALTH_CHECK_INTERVAL == 5

\* the server before a run: NGINX up and routing to a running deployment, the
\* other deployment stopped (as step 8 of the last run left it) or running
ServerWith(active, running) ==
  [at |-> "idle", skip |-> FALSE, current |-> "none", next |-> "none", elapsed |-> 0,
   nginx |-> active, nginxUp |-> TRUE, running |-> running,
   started |-> {}, checked |-> {}, stopped |-> {}, timedOut |-> FALSE, code |-> None]

\* the servers a run may start on: blue active or green active
DeployableServers ==
  UNION {{ServerWith(d, {d}), ServerWith(d, {"blue", "green"})} : d \in {"blue", "green"}}

\* lines 26-32, 67-83: the arguments, the SSH check, CURRENT_ACTIVE and NEXT_ACTIVE;
\* under set -e a remote command that fails ends the script with status 1
DeployChecksStatus ==
  /\ deploy.at = "idle"
  /\ \/ \E skip \in BOOLEAN :
          deploy' = [deploy EXCEPT !.at = "build", !.skip = skip,
                                   !.current = deploy.nginx,
                                   !.next = IF deploy.nginx = "green" THEN "blue"
                                            ELSE "green"]
     \/ deploy' = [deploy EXCEPT !.at = "exited", !.code = Some(1)]
  /\ UNCHANGED <<apiKey, shape, peer, callVars, webVars, storeVars, execVars, zombies,
                 netLog, faults>>

\* lines 85-98: git pull, docker build, then up -d green, whatever NEXT_ACTIVE is
DeployStartsGreen ==
  /\ deploy.at = "build"
  /\ \/ deploy' = [deploy EXCEPT !.at = IF deploy.skip THEN "switch" ELSE "health",
                                  !.running = @ \cup {"green"},
                                  !.started = {"green"},
                                  !.elapsed = 0]
     \/ deploy' = [deploy EXCEPT !.at = "exited", !.code = Some(1)]
  /\ UNCHANGED <<apiKey, shape, peer, callVars, webVars, storeVars, execVars, zombies,
                 netLog, faults>>

\* what line 106 may assign to HEALTH: the status the application on port 3001
\* answers with, "error" when the remote command fails, nothing when jq read nothing
HealthAnswers ==
  IF "green" \in deploy.running THEN {"success", "error", "failed", ""} ELSE {"error", ""}

\* lines 105-117: one turn of the loop
HealthCheckPolls ==
  /\ deploy.at = "health"
  /\ deploy.elapsed < HEALTH_CHECK_TIMEOUT
  /\ \E HEALTH \in HealthAnswers :
       deploy' = IF HEALTH \in {"success", "error"}
                 THEN [deploy EXCEPT !.at = "switch", !.checked = {"green"}]
                 ELSE [deploy EXCEPT !.elapsed = @ + HEALTH_CHECK_INTERVAL]
  /\ UNCHANGED <<apiKey, shape, peer, callVars, webVars, storeVars, execVars, zombies,
                 netLog, faults>>

\* docker-compose down without a profile: NGINX and blue, the services the script
\* addresses without a profile, are stopped; green, which it addresses with
\* --profile green, is stopped or left running
AfterDown == {r \in SUBSET deploy.running : "blue" \notin r}

\* lines 120-125: the loop ran out, the script brings the stack down and exits 1
HealthCheckTimesOut ==
  /\ deploy.at = "health"
  /\ deploy.elapsed >= HEALTH_CHECK_TIMEOUT
  /\ \E r \in AfterDown :
       deploy' = [deploy EXCEPT !.at = "exited", !.code = Some(1),
                                !.running = r, !.nginxUp = FALSE, !.timedOut = TRUE,
                                !.stopped = deploy.running \ r]
  /\ UNCHANGED <<apiKey, shape, peer, callVars, webVars, storeVars, execVars, zombies,
                 netLog, faults>>

\* lines 130-138: sed renames the upstream to NEXT_ACTIVE, NGINX reloads
DeploySwitchesNginx ==
  /\ deploy.at = "switch"
  /\ deploy' = [deploy EXCEPT !.at = "stop", !.nginx = deploy.next]
  /\ UNCHANGED <<apiKey, shape, peer, callVars, webVars, storeVars, execVars, zombies,
                 netLog, faults>>

\* lines 140-147 and the rest of the script: CURRENT_ACTIVE is stopped, exit 0
DeployStopsOld ==
  /\ deploy.at = "stop"
  /\ deploy' = [deploy EXCEPT !.at = "exited", !.code = Some(0),
                              !.running = @ \ {deploy.current},
                              !.stopped = {deploy.current} \cap deploy.running]
  /\ UNCHANGED <<apiKey, shape, peer, callVars, webVars, storeVars, execVars, zombies,
                 netLog, faults>>

(***************************************************************************)
(* The specification: one caller issuing calls one after the other.        *)
(***************************************************************************)
\* no request received yet, the tables empty
InitWeb ==
  /\ today = 1
  /\ submissions = <<>>
  /\ analytics = {}
  /\ syncLog = <<>>
  /\ client = "none"
  /\ post = IdlePost
  /\ task = NoTask
  /\ test = IdleTest
  /\ resp = None
  /\ dbFaults = 0
  /\ nPosts = 0

\* the client and the executor before the first call
InitClient ==
  /\ pc = "idle"
  /\ call = NoCall
  /\ result = None
  /\ nCalls = 0
  /\ zombies = EmptyBag
  /\ netLog = <<>>
  /\ lookup = None
  /\ rpc = "none"
  /\ fn = OpFn
  /\ config = MergeConfig(NoOptions)
  /\ attempt = 0
  /\ lastError = None
  /\ returned = None
  /\ thrown = None
  /\ fnCalls = 0
  /\ attemptErrors = <<>>
  /\ waits = <<>>
  /\ elapsed = 0
  /\ faults = 0
  /\ synced = {}
  /\ peer = NoPeer
  /\ deploy = ServerWith("blue", {"blue"})

\* the remote store empty, the database as scripts/init-db.sql creates it
Init ==
  /\ InitClient
  /\ InitWeb
  /\ apiKey \in BOOLEAN
  /\ shape \in Shapes
  /\ remote = {}
  /\ nextId = 1
  /\ analyticsUnique = FALSE

\* the executor, whatever operation it was given
Executor ==
  \/ AttemptTimesOut
  \/ BackoffElapses
  \/ LateCompletion

Next ==
  \/ Executor
  \/ FetchResponds
  \/ FetchRejects
  \/ syncContactToHubSpot
  \/ SyncUpdates
  \/ SyncCreates
  \/ SyncUpdateReturns
  \/ SyncCreateReturns
  \/ addContactToList
  \/ AddContactToListReturns
  \/ createHubSpotDeal
  \/ CreateHubSpotDealReturns
  \/ logActivityToHubSpot
  \/ ActivityContactNotFound
  \/ ActivityCreatesNote
  \/ LogActivityReturns

\* the client operations, called one after the other
Spec == Init /\ [][Next]_vars

NextRetry ==
  \/ Executor
  \/ CallRetryWithBackoff
  \/ RetryWithBackoffSettles
  \/ FnResolves
  \/ FnRejects

\* retryWithBackoff called directly, one call after the other
SpecRetry == Init /\ [][NextRetry]_vars

\* timers fire: a pending timeout and a pending backoff delay do elapse
TimersFire == WF_vars(AttemptTimesOut) /\ WF_vars(BackoffElapses)

NextRetryOnce ==
  \/ Executor
  \/ CallRetryWithBackoffUpTo(MaxLiveCalls)
  \/ RetryWithBackoffSettles
  \/ FnResolves
  \/ FnRejects

\* retryWithBackoff called directly, with timers that fire
SpecRetryLive == Init /\ [][NextRetryOnce]_vars /\ TimersFire

\* the steps of the client inside a syncContactToHubSpot call
SyncSteps ==
  \/ Executor
  \/ FetchResponds
  \/ FetchRejects
  \/ SyncUpdates
  \/ SyncCreates
  \/ SyncUpdateReturns
  \/ SyncCreateReturns

\* the steps of the client inside a sync or an activity call
ClientSteps ==
  \/ SyncSteps
  \/ ActivityContactNotFound
  \/ ActivityCreatesNote
  \/ LogActivityReturns

\* the remote store holds no contact, or one for the first email already; the
\* database is the one scripts/init-db.sql creates or one that also has a unique
\* index on form_analytics (form_name, submission_date)
InitSite ==
  /\ InitClient
  /\ InitWeb
  /\ apiKey \in BOOLEAN
  /\ shape \in Shapes
  /\ remote \in {{}, {[id |-> 1, email |-> "jane@example.com"]}}
  /\ nextId = Cardinality(remote) + 1
  /\ analyticsUnique \in BOOLEAN

NextContact ==
  \/ ClientSteps
  \/ Midnight
  \/ PostReceives
  \/ PostInsertsSubmission
  \/ PostUpdatesAnalytics
  \/ PostResponds
  \/ PostCatch
  \/ TaskMarksSynced
  \/ TaskLogsSuccess
  \/ TaskCountsSynced
  \/ TaskLogsFailure
  \/ TaskActivityReturns
  \/ TaskCatch

\* POST /api/contact and the sync task it detaches
SpecContact == InitSite /\ [][NextContact]_vars

NextTest ==
  \/ SyncSteps
  \/ TestReceives
  \/ TestResponds

\* GET and POST /api/hubspot/test
SpecTest == InitSite /\ [][NextTest]_vars

\* a production server before a deploy, with the application idle
InitDeploy ==
  /\ pc = "idle" /\ call = NoCall /\ result = None /\ nCalls = 0 /\ lookup = None
  /\ synced = {} /\ peer = NoPeer /\ zombies = EmptyBag /\ netLog = <<>> /\ faults = 0
  /\ rpc = "none" /\ fn = OpFn /\ config = MergeConfig(NoOptions) /\ attempt = 0
  /\ lastError = None /\ returned = None /\ thrown = None /\ fnCalls = 0
  /\ attemptErrors = <<>> /\ waits = <<>> /\ elapsed = 0
  /\ InitWeb
  /\ apiKey \in BOOLEAN
  /\ shape \in Shapes
  /\ remote = {}
  /\ nextId = 1
  /\ analyticsUnique = FALSE
  /\ deploy \in DeployableServers

NextDeploy ==
  \/ DeployChecksStatus
  \/ DeployStartsGreen
  \/ HealthCheckPolls
  \/ HealthCheckTimesOut
  \/ DeploySwitchesNginx
  \/ DeployStopsOld

\* one run of deploy-production.sh
SpecDeploy == InitDeploy /\ [][NextDeploy]_vars

(***************************************************************************)
(* Properties of retryWithBackoff, checked under SpecRetry.                *)
(***************************************************************************)
AllRetryable(errors) == \A i \in 1..Len(errors) : isRetryableError(errors[i])
Running == rpc # "none" /\ config.maxAttempts >= 1
ThisTimeout == TimeoutError(config.timeoutMs)

\* C4: with maxAttempts >= 1, while every attempt made has failed with a retryable
\* error the executor waits for the next attempt as long as attempts remain, and
\* once maxAttempts invocations have failed it raises the error of the last one;
\* the operation is never invoked more than maxAttempts times.
C4_RetryExhaustion ==
  Running =>
    /\ fnCalls <= config.maxAttempts
    /\ (Len(attemptErrors) = fnCalls /\ AllRetryable(attemptErrors)) =>
         IF fnCalls = config.maxAttempts
         THEN rpc = "thrown" /\ thrown = Some(attemptErrors[fnCalls])
         ELSE rpc = "backoff"

\* three attempts, all failed retryably, the last error differing from the first
C4_Witness ==
  /\ rpc = "thrown"
  /\ config.maxAttempts = DefaultMaxAttempts
  /\ fnCalls = DefaultMaxAttempts
  /\ AllRetryable(attemptErrors)
  /\ attemptErrors[1] # attemptErrors[fnCalls]

\* C5: an attempt that fails with a non-retryable error ends the call at once: that
\* error is raised, the operation is not invoked again, and no backoff wait follows,
\* whatever maxAttempts is and whichever attempt it is.
C5_NonRetryableShortCircuit ==
  Running =>
    \A i \in 1..Len(attemptErrors) :
      ~isRetryableError(attemptErrors[i]) =>
        /\ rpc = "thrown"
        /\ thrown = Some(attemptErrors[i])
        /\ fnCalls = i
        /\ Len(attemptErrors) = i
        /\ Len(waits) = i - 1

\* a 400 on the second of three attempts
C5_Witness ==
  /\ rpc = "thrown"
  /\ config.maxAttempts = DefaultMaxAttempts
  /\ fnCalls = 2
  /\ attemptErrors[2] = "400 Bad Request"

\* C6: when the call has returned, it returned the value of invocation number
\* attempt, with 1 <= attempt <= maxAttempts; the operation was invoked exactly
\* attempt times, every earlier attempt failed, and one backoff wait was made
\* after each failed attempt and none after the successful one.
C6_SuccessShortCircuit ==
  (Running /\ rpc = "returned") =>
    /\ attempt \in 1..config.maxAttempts
    /\ fnCalls = attempt
    /\ returned = Some([data |-> attempt])
    /\ Len(attemptErrors) = attempt - 1
    /\ Len(waits) = attempt - 1

\* success on the second of three attempts
C6_Witness ==
  /\ rpc = "returned"
  /\ config.maxAttempts = DefaultMaxAttempts
  /\ attempt = 2
  /\ pc = "idle"

\* C7: an attempt that lost the race to the timer failed with the timeout error,
\* which is retryable; it is one attempt (the i-th error belongs to the i-th
\* invocation); if it was the last attempt allowed the call raised the timeout
\* error, otherwise the call waits for or has made another attempt.
C7_TimeoutEnforcement ==
  Running =>
    \A i \in 1..Len(attemptErrors) :
      attemptErrors[i] = ThisTimeout =>
        /\ isRetryableError(attemptErrors[i])
        /\ i <= fnCalls
        /\ IF i = config.maxAttempts
           THEN rpc = "thrown" /\ thrown = Some(ThisTimeout) /\ fnCalls = i
           ELSE \/ rpc = "backoff" /\ fnCalls = i
                \/ fnCalls > i

\* two attempts allowed, both timed out: the first was followed by another attempt,
\* the second raised the timeout error
C7_Witness ==
  /\ rpc = "thrown"
  /\ config.maxAttempts = 2
  /\ attemptErrors = <<ThisTimeout, ThisTimeout>>
  /\ thrown = Some(ThisTimeout)

\* the HTTP status an error reports: the three digits its message starts with
ReportedStatus(message) ==
  IF Len(message) >= 3 /\ \A i \in 1..3 : CharAt(message, i) \in {CharAt("0123456789", d) : d \in 1..10}
  THEN Some(SubSeq(message, 1, 3))
  ELSE None

NetworkErrorCodes == {"ECONNREFUSED", "ENOTFOUND", "ETIMEDOUT"}
RetryableStatuses == {"429", "500", "502", "503", "504"}

\* the classification by kind of error: a reported status decides; without one the
\* error is retryable when it is a network error code or the executor's timeout
RetryableKind(message) ==
  IF ReportedStatus(message) # None
  THEN Val(ReportedStatus(message)) \in RetryableStatuses
  ELSE message \in NetworkErrorCodes \/ message = ThisTimeout

\* C21: a failed attempt that is not the last one allowed is followed by a backoff
\* wait exactly when its error is connection-refused, DNS-failure, network-timeout,
\* the executor's own timeout or reports status 429/500/502/503/504; an error
\* reporting 400, 401, 403 or 404 ends the call whatever else its text contains.
C21_ErrorClassification ==
  Running =>
    \A i \in 1..Len(attemptErrors) :
      i < config.maxAttempts =>
        (RetryableKind(attemptErrors[i]) <=> (Len(waits) >= i))

RECURSIVE SumSeq(_)
SumSeq(q) == IF q = <<>> THEN 0 ELSE q[1] + SumSeq(SubSeq(q, 2, Len(q)))

\* the waits of a call that uses all its attempts: initialDelayMs * (1 + 2 + ... )
AllWaits(c) == c.initialDelayMs * (2^(c.maxAttempts - 1) - 1)

\* C23: the timeout bounds each attempt separately: at any moment of a call the
\* time since its start is at most timeoutMs for every attempt begun plus the
\* waits made, hence never more than maxAttempts*timeoutMs plus the waits between
\* maxAttempts attempts; that is 36000 ms for the default policy.
C23_BoundedDuration ==
  Running =>
    /\ elapsed <= fnCalls * config.timeoutMs + SumSeq(waits)
    /\ elapsed <= config.maxAttempts * config.timeoutMs + AllWaits(config)
    /\ config = MergeConfig(NoOptions) => elapsed <= 36000

\* the default policy, every attempt ended by its timer: the call raised after
\* 36000 ms, more than one timeout
C23_Witness ==
  /\ rpc = "thrown"
  /\ config = MergeConfig(NoOptions)
  /\ attemptErrors = <<ThisTimeout, ThisTimeout, ThisTimeout>>
  /\ elapsed = 36000

\* an attempt or a backoff wait of a call with maxAttempts >= 1 is in progress
InProgress == rpc \in {"race", "backoff"} /\ config.maxAttempts >= 1

\* C24: with timers that fire, a retryWithBackoff call with maxAttempts >= 1 that
\* is in progress eventually returns or raises; when it has returned, the value is
\* that of its last invocation, which did not fail; when it has raised, the error
\* raised is the error of its last attempt and no value is returned.
C24_AlwaysFinishesNeverSwallows ==
  /\ InProgress ~> Finished
  /\ [](Running /\ rpc = "returned" =>
          /\ returned # None
          /\ thrown = None
          /\ fnCalls >= 1
          /\ Len(attemptErrors) = fnCalls - 1)
  /\ [](Running /\ rpc = "thrown" =>
          /\ returned = None
          /\ Len(attemptErrors) = fnCalls
          /\ thrown = Some(attemptErrors[fnCalls]))

\* two attempts allowed, both failed: the caller got the error of the second
C24_Witness ==
  /\ pc = "idle"
  /\ rpc = "thrown"
  /\ config.maxAttempts = 2
  /\ fnCalls = 2
  /\ result = Some([returned |-> None, thrown |-> Some(attemptErrors[2])])

\* the invocations of the operation that have not settled: the one in the race
\* of the current attempt and those that lost the race of an earlier attempt
Outstanding == BagCardinality(zombies) + (IF rpc = "race" THEN 1 ELSE 0)

\* C32: at most one invocation of the operation is outstanding at any time, and
\* none is outstanding once the call has returned or raised.
C32_OneInvocationOutstanding ==
  /\ Outstanding <= 1
  /\ Finished => Outstanding = 0

\* C34: whatever options it was given, a retryWithBackoff call that has returned
\* or raised has invoked the operation at least once, and the error it raised
\* is the error of one of its attempts.
C34_OperationRunsForEveryPolicy ==
  Finished =>
    /\ fnCalls >= 1
    /\ thrown # None => \E i \in 1..Len(attemptErrors) : attemptErrors[i] = Val(thrown)

(***************************************************************************)
(* Properties of the client, checked under Spec.                           *)
(***************************************************************************)
PublicOperations ==
  {"syncContactToHubSpot", "addContactToList", "createHubSpotDeal", "logActivityToHubSpot"}

\* a syncContactToHubSpot call that got past the credential check has returned
SyncDone == pc = "idle" /\ call.name = "syncContactToHubSpot" /\ apiKey

Kinds(log) == [i \in 1..Len(log) |-> log[i].kind]

\* the lookup got a 2xx answer and found nothing
LookupEmpty == Val(lookup).status = Some(200) /\ Val(lookup).contact = None

\* the lookup got a 2xx answer whose first result carries the contact's id
LookupFoundId ==
  /\ Val(lookup).status = Some(200)
  /\ Val(lookup).contact # None
  /\ Val(Val(lookup).contact).id # None

\* C1: with the remote API answering every request 200 in the v3 shape, after
\* every finished sync the remote store holds exactly one contact for the email
\* of the call; the first sync of an email is one search then one create, every
\* later one is one search then one update.
C1_IdempotentIdentity ==
  (SyncDone /\ shape = "v3" /\ faults = 0) =>
    /\ Cardinality(Matching(call.email)) = 1
    /\ Kinds(netLog) = IF call.first THEN <<"search", "create">>
                       ELSE <<"search", "update">>

C3_UpdatePath ==
  (SyncDone /\ LookupFoundId) =>
    LET id == Val(Val(lookup).contact).id IN
    /\ \A i \in 1..Len(netLog) : netLog[i].kind # "create"
    /\ netLog[Len(netLog)] = Request("update", call.email, id)
    /\ (rpc = "returned" /\ Val(returned).ok) => Val(result) = Success(id)

\* C8: a remote call of a sync that is answered 429 is retried: the executor
\* hands a 429 answer to the client only from the third attempt, after backoff
\* waits of 2000 ms and 4000 ms.
C8_TransientErrorsRetried ==
  (call.name = "syncContactToHubSpot" /\ rpc = "returned" /\ Val(returned).status = 429) =>
    /\ attempt = DefaultMaxAttempts
    /\ waits = <<2000, 4000>>

\* C9: when the first request of a sync (the search) is answered 401, the sync
\* returns failure with an error text containing "401" and that request is the
\* only one made.
C9_CredentialRejectionFailsFast ==
  (SyncDone /\ Val(lookup).status = Some(401) /\ Val(lookup).attempts = 1) =>
    /\ ~Val(result).success
    /\ includes(Val(Val(result).error), "401")
    /\ Len(netLog) = 1

\* C10: with HUBSPOT_API_KEY unset no fetch is ever invoked, and every call of a
\* public operation returns at once a failure whose error names HUBSPOT_API_KEY.
C10_MissingCredential ==
  ~apiKey =>
    /\ netLog = <<>>
    /\ rpc = "none"
    /\ fnCalls = 0
    /\ pc = "idle"
    /\ call.name \in PublicOperations =>
         /\ result # None
         /\ ~Val(result).success
         /\ includes(Val(Val(result).error), "HUBSPOT_API_KEY")

\* two calls made without the credential, the second a deal creation
C10_Witness ==
  /\ ~apiKey
  /\ nCalls = 2
  /\ call.name = "createHubSpotDeal"
  /\ result # None

\* a call of a public operation has returned
ClientReturned == pc = "idle" /\ call.name \in PublicOperations

\* the steps by which an operation takes up the outcome of the fetchWithRetry it awaits
ClientResumes ==
  \/ SyncUpdates
  \/ SyncCreates
  \/ SyncUpdateReturns
  \/ SyncCreateReturns
  \/ AddContactToListReturns
  \/ CreateHubSpotDealReturns
  \/ ActivityContactNotFound
  \/ ActivityCreatesNote
  \/ LogActivityReturns

\* C11: whatever the remote calls do (rejection, timeout after the last attempt,
\* non-2xx, body that is not JSON), every outcome of an awaited fetchWithRetry is
\* taken up by the operation that awaits it, and every call of a public operation
\* returns a result whose success field is a boolean, a failure carrying a
\* non-empty error text.
C11_NeverThrowsPastBoundary ==
  /\ (pc \notin {"idle", "retryWithBackoff"} /\ Finished) => ENABLED ClientResumes
  /\ ClientReturned =>
       /\ result # None
       /\ Val(result).success \in BOOLEAN
       /\ ~Val(result).success =>
            /\ Val(result).error # None
            /\ Len(Val(Val(result).error)) > 0

\* a deal creation whose three attempts all timed out returned the timeout as a failure
C11_Witness ==
  /\ ClientReturned
  /\ call.name = "createHubSpotDeal"
  /\ rpc = "thrown"
  /\ fnCalls = DefaultMaxAttempts
  /\ Val(result) = Failure(TimeoutError(DefaultTimeoutMs))

\* C12: every successful result of syncContactToHubSpot carries a defined remote
\* id; a 2xx create answer without an id makes the call return failure.
C12_MalformedResponseIsFailure ==
  (SyncDone /\ Val(result).success) => Val(result).vid # None

\* the fixed text each remote call falls back to
FallbackText(kind) ==
  CASE kind = "create" -> "Failed to create contact"
    [] kind = "update" -> "Failed to update contact"
    [] kind = "list" -> "Failed to add contact to list"
    [] kind = "deal" -> "Failed to create deal"
    [] kind = "note" -> "Failed to log activity"

\* a public operation returned after its create, update, list-add, deal or note
\* call was answered non-2xx
ReturnedOnNon2xx ==
  /\ ClientReturned
  /\ apiKey
  /\ rpc = "returned"
  /\ fn.kind \in {"create", "update", "list", "deal", "note"}
  /\ ~Val(returned).ok

\* C13 as stated: on a non-2xx answer the operation returns the failure whose
\* error is the message field of the body, or its fixed text when the body has
\* no message.
C13_Non2xxCarriesRemoteMessage ==
  ReturnedOnNon2xx =>
    Val(result) = Failure(MessageOr(Val(returned).body, FallbackText(fn.kind)))

\* C13, amended: on a non-2xx answer the operation never returns success; it
\* returns the failure whose error is the message field of the JSON body, its
\* fixed text when the JSON body has no message, and the parse error when the
\* body is not JSON.
C13_Non2xxIsFailure ==
  ReturnedOnNon2xx =>
    /\ ~Val(result).success
    /\ Val(result).error =
         IF ~Val(returned).parsable THEN Some(JsonSyntaxError)
         ELSE IF Val(returned).body.message # None THEN Val(returned).body.message
         ELSE Some(FallbackText(fn.kind))

\* a deal creation answered 429 with a message returned that message
C13_Witness ==
  /\ ReturnedOnNon2xx
  /\ call.name = "createHubSpotDeal"
  /\ Val(returned).status = 429
  /\ Val(returned).body.message # None
  /\ Val(result).error = Val(returned).body.message

\* a logActivityToHubSpot call that got past the credential check has returned
ActivityDone == pc = "idle" /\ call.name = "logActivityToHubSpot" /\ apiKey

\* C14: when the lookup yields no contact the call returns the failure "Contact
\* not found in HubSpot" and no note request is made; when the lookup returns a
\* search result carrying the contact's id the last request of the call is a
\* note associated with that id, and the call returns success when that request
\* is answered 2xx.
C14_ActivityLooksUpFirst ==
  ActivityDone =>
    IF Val(lookup).contact = None
    THEN /\ Val(result) = Failure("Contact not found in HubSpot")
         /\ \A i \in 1..Len(netLog) : netLog[i].kind # "note"
    ELSE Val(Val(lookup).contact).id # None =>
           /\ netLog[Len(netLog)] =
                Request("note", call.email, Val(Val(lookup).contact).id)
           /\ (rpc = "returned" /\ Val(returned).ok) => Val(result).success

(***************************************************************************)
(* Properties of the contact route and its sync task, checked under        *)
(* SpecContact.                                                            *)
(***************************************************************************)
\* the rows of hubspot_sync_log written for a submission
LogRowsOf(id) == {i \in 1..Len(syncLog) : syncLog[i].contact_id = id}

RECURSIVE SumSynced(_)
SumSynced(rows) ==
  IF rows = {} THEN 0
  ELSE LET r == CHOOSE x \in rows : TRUE
       IN r.hubspot_synced_count + SumSynced(rows \ {r})

\* the successful rows of hubspot_sync_log
SuccessRows == {i \in 1..Len(syncLog) : syncLog[i].success}

\* the sync task has the result of syncContactToHubSpot and is past the
\* statements that record it
Recorded == task.at \in {"activity", "done"} /\ task.hubspotResult # None

\* C15: after every run of syncContactToHubSpotAsync, whatever the remote calls
\* and the storage statements did, hubspot_sync_log holds exactly one row for
\* the submission, and its success flag is that of the syncContactToHubSpot result.
C15_AuditCompleteness ==
  (task.at = "done") =>
    /\ Cardinality(LogRowsOf(task.id)) = 1
    /\ task.hubspotResult # None
    /\ \A i \in LogRowsOf(task.id) :
         syncLog[i].success = Val(task.hubspotResult).success

\* C16: when syncContactToHubSpot returned success and no storage statement
\* failed, the task has set the submission's hubspot_contact_id to the returned
\* id and hubspot_synced to TRUE, has appended one successful row for it, and
\* has raised hubspot_synced_count by one for each successful row.
C16_OrchestratorOnSuccess ==
  (Recorded /\ Val(task.hubspotResult).success /\ dbFaults = 0) =>
    /\ submissions[task.id].hubspot_synced
    /\ submissions[task.id].hubspot_contact_id = Val(task.hubspotResult).vid
    /\ Cardinality(LogRowsOf(task.id)) = 1
    /\ \A i \in LogRowsOf(task.id) : syncLog[i].success
    /\ SumSynced(analytics) = Cardinality(SuccessRows)

PostReturns == post.at \in {"respond", "catch"} /\ post'.at = "idle"

\* C18: when the handler returns for a valid submission and no connect or
\* statement has failed, whatever the sync task and the remote API are doing
\* its response is 201 with the id and creation date of the submission row.
C18_CrmOutcomeInvisible ==
  [][(PostReturns /\ dbFaults' = 0) =>
       /\ post.id # None
       /\ resp' = Some(Response(201, None, post.id,
                                Some(submissions[Val(post.id)].created_at)))]_vars

\* the shape local@domain.tld: one @, no white space, a non-empty local part, and
\* after the @ a dot with something before it and something after it
LocalAtDomainTld(s) ==
  /\ Cardinality({i \in 1..Len(s) : CharAt(s, i) = "@"}) = 1
  /\ \A i \in 1..Len(s) : CharAt(s, i) \notin Whitespace
  /\ LET at == CHOOSE i \in 1..Len(s) : CharAt(s, i) = "@"
     IN /\ at > 1
        /\ \E dot \in (at + 2)..(Len(s) - 1) : CharAt(s, dot) = "."

\* a body that misses name, email or message, or whose email is ill-shaped
Invalid(body) ==
  \/ \E f \in {"name", "email", "message"} : body[f] = None \/ Val(body[f]) = ""
  \/ ~LocalAtDomainTld(Val(body.email))

\* C19: the step that receives a POST /api/contact request with an invalid body
\* answers 400 and changes nothing else: no row, no counter, no connection, no
\* sync task, no call of the client, no remote request.
C19_ValidationPrecedesEffects ==
  [][(nPosts' = nPosts + 1 /\ post'.body # NoBody /\ Invalid(post'.body)) =>
       /\ resp' # None
       /\ Val(resp').status = 400
       /\ post'.at = "idle"
       /\ UNCHANGED <<submissions, analytics, syncLog, dbFaults, client, task>>
       /\ UNCHANGED <<callVars, execVars, storeVars, netLog, zombies>>]_vars

\* a request whose email has no top-level domain was answered 400, the tables empty
C19_Witness ==
  /\ post.at = "idle"
  /\ post.body.email = Some("jane@example")
  /\ post.body.name # None
  /\ post.body.message # None
  /\ Val(resp).status = 400
  /\ submissions = <<>>
  /\ analytics = {}
  /\ task = NoTask

\* C26: a step taken while a submission is marked synced leaves it marked synced
\* and leaves its stored remote id as it is; hence a submission goes from
\* unsynced to synced at most once.
C26_SyncedIsTerminal ==
  [][\A i \in 1..Len(submissions) :
       submissions[i].hubspot_synced =>
         /\ i <= Len(submissions')
         /\ submissions'[i].hubspot_synced
         /\ submissions'[i].hubspot_contact_id = submissions[i].hubspot_contact_id]_vars

\* a submission marked synced with a remote id, whose task then failed on a later
\* statement and ended through its catch block
C26_Witness ==
  /\ task.at = "done"
  /\ dbFaults = 1
  /\ Len(syncLog) = 2
  /\ submissions[task.id].hubspot_synced
  /\ submissions[task.id].hubspot_contact_id # None

\* C27: a submission row is unsynced and without a remote id from its insertion
\* until the step in which its own sync task, holding a successful result of
\* syncContactToHubSpot, marks it with the id of that result; so a stop of the
\* process in any state before that step leaves the stored row unsynced, and a
\* row marked synced is one whose sync returned success.
C27_CrashSafety ==
  [][\A i \in 1..Len(submissions') :
       LET was == i <= Len(submissions) /\ submissions[i].hubspot_synced
       IN /\ (submissions'[i].hubspot_synced /\ ~was) =>
               /\ i <= Len(submissions)
               /\ task.id = i
               /\ SyncReturnedToTask
               /\ Val(result).success
               /\ submissions'[i].hubspot_contact_id = Val(result).vid
          /\ ~submissions'[i].hubspot_synced =>
               submissions'[i].hubspot_contact_id = None]_vars

\* the remote contact has been created and the sync has returned success, the
\* success update has not run yet: the stored row is unsynced
C27_Witness ==
  /\ SyncReturnedToTask
  /\ Val(result).success
  /\ Val(result).vid # None
  /\ Matching(task.email) # {}
  /\ ~submissions[task.id].hubspot_synced
  /\ submissions[task.id].hubspot_contact_id = None

\* the task is about to run a storage statement
TaskAtStatement == task.at \in {"sync", "success:log", "success:analytics", "catch"}

\* C28: every step in which the sync task runs a storage statement happens while
\* the connection it was given is held, never after the handler released it.
C28_ConnectionDiscipline ==
  [][(TaskAtStatement /\ task'.at # task.at) => client = "held"]_vars

C35_SyncedRowNamesRemoteContact ==
  \A i \in 1..Len(submissions) :
    submissions[i].hubspot_synced =>
      /\ submissions[i].hubspot_contact_id # None
      /\ \E c \in remote :
           /\ c.id = Val(submissions[i].hubspot_contact_id)
           /\ c.email = submissions[i].email

\* the requests of this kind that the sync call which just returned has sent
Issued(kind) == \E i \in 1..Len(netLog) : netLog[i].kind = kind

\* C36: the row the task writes for the outcome of its sync has kind 'update'
\* when the sync sent an update, and has kind 'create' only when the sync sent
\* a create.
C36_LogRowKindIsAttemptedOperation ==
  [][(task.at \in {"sync", "success:log"} /\ Len(syncLog') = Len(syncLog) + 1) =>
       LET row == syncLog'[Len(syncLog')] IN
       /\ Issued("update") => row.sync_type = "update"
       /\ row.sync_type = "create" => Issued("create")]_vars

(***************************************************************************)
(* Properties of the integration test endpoint, checked under SpecTest.    *)
(***************************************************************************)
\* the sync failed on the remote API answering its last request with HTTP 401
CredentialRejected ==
  /\ ~Val(result).success
  /\ rpc = "returned"
  /\ Val(returned).status = 401

\* C20: a request received without the credential is answered 401 and no sync is
\* called; with the credential a POST whose body is not JSON or has no email is
\* answered 400; otherwise the sync is called, and when it has returned the
\* answer is 200 if it succeeded, 401 if it failed on an HTTP 401 of the remote
\* API, and 500 if it failed otherwise.
C20_TestEndpointStatusMapping ==
  [][/\ (nPosts' = nPosts + 1) =>
          IF ~apiKey
          THEN Val(resp').status = 401 /\ UNCHANGED <<nCalls, netLog>>
          ELSE IF test'.method = "POST" /\ test'.body # "email"
          THEN Val(resp').status = 400 /\ UNCHANGED <<nCalls, netLog>>
          ELSE test'.at = "sync" /\ nCalls' = nCalls + 1
     /\ (test.at = "sync" /\ test'.at = "idle") =>
          Val(resp').status = IF Val(result).success THEN 200
                              ELSE IF CredentialRejected THEN 401
                              ELSE 500]_vars

(***************************************************************************)
(* Two syncContactToHubSpot calls side by side.                            *)
(***************************************************************************)
NextRace ==
  \/ SyncSteps
  \/ syncContactToHubSpotUpTo(MaxLiveCalls)
  \/ PeerStarts
  \/ PeerLookupReturns
  \/ PeerCreateReturns
  \/ PeerUpdateReturns

\* one sync of the caller and one of the peer, interleaved at every await
SpecRace == Init /\ [][NextRace]_vars

\* the caller's sync for this email ended with a create the remote API accepted,
\* after a lookup that returned no contact
CallerCreated(email) ==
  /\ call.name = "syncContactToHubSpot"
  /\ call.email = email
  /\ pc = "idle"
  /\ lookup # None
  /\ Val(lookup).contact = None
  /\ result # None
  /\ Val(result).success

\* the same of the peer's sync
PeerCreated(email) ==
  /\ peer.at = "done"
  /\ peer.email = email
  /\ peer.looked # None
  /\ Val(peer.looked).contact = None
  /\ Val(peer.result).success

\* C29: nothing excludes the lookup-then-create race: whenever two sync tasks
\* for one email have both got no contact from their lookup and both had their
\* create accepted, the remote store holds two contacts for that email.
C29_LookupThenCreateRace ==
  \A email \in Emails :
    (CallerCreated(email) /\ PeerCreated(email)) => Cardinality(Matching(email)) >= 2

\* the race with a remote API that answered every request well: both lookups ran
\* before either create, and one email has two contacts
C29_Witness ==
  \E email \in Emails :
    /\ CallerCreated(email)
    /\ PeerCreated(email)
    /\ faults = 0
    /\ nCalls = 1
    /\ Val(lookup).status = Some(200)
    /\ Val(peer.looked).status = Some(200)
    /\ Cardinality(Matching(email)) = 2

(***************************************************************************)
(* Properties of the client's use of the executor, checked under Spec.     *)
(***************************************************************************)
\* the remote operations of the client: search, create, update, list-add, deal, note
RequestKinds == {"search", "create", "update", "list", "deal", "note"}

\* the fetches of the current client call that carried a request of this kind
FetchesOf(kind) == {i \in 1..Len(netLog) : netLog[i].kind = kind}

\* C25: in a call of a client operation every fetch is invoked by the executor
\* running with maxAttempts 3, timeoutMs 10000, initialDelayMs 2000; no remote
\* operation is invoked more than 3 times within the call, and a
\* syncContactToHubSpot call makes at most 6 fetches.
C25_DefaultPolicyEverywhere ==
  (call.name \in PublicOperations /\ rpc # "none") =>
    /\ config = [maxAttempts |-> 3, timeoutMs |-> 10000, initialDelayMs |-> 2000]
    /\ fn.kind \in RequestKinds
    /\ fnCalls <= 3
    /\ Cardinality(FetchesOf(fn.kind)) = fnCalls
    /\ \A kind \in RequestKinds : Cardinality(FetchesOf(kind)) <= 3
    /\ call.name = "syncContactToHubSpot" => Len(netLog) <= 6

\* a sync whose search and create each took three attempts: six fetches
C25_Witness ==
  /\ call.name = "syncContactToHubSpot"
  /\ pc = "idle"
  /\ Len(netLog) = 6
  /\ Cardinality(FetchesOf("search")) = 3
  /\ Cardinality(FetchesOf("create")) = 3

\* C31: a create is issued only after a lookup that completed with a 2xx answer
\* carrying an empty result; a lookup that raised or got a non-2xx answer is
\* followed by no create.
C31_CreateOnlyAfterEmptyLookup ==
  pc = "sync:createContact" =>
    /\ Val(lookup).status = Some(200)
    /\ Val(lookup).contact = None

\* C33: the remote store gains at most one contact from a single
\* syncContactToHubSpot call, here the first call, made on an empty store.
C33_OneCallOneContact ==
  (nCalls = 1 /\ call.name = "syncContactToHubSpot") => Cardinality(remote) <= 1

(***************************************************************************)
(* Properties of deploy-production.sh, checked under SpecDeploy.           *)
(***************************************************************************)
\* the run ended with status 0 and with the health check on
Completed == deploy.at = "exited" /\ deploy.code = Some(0) /\ ~deploy.skip
Serving(d) == deploy.nginxUp /\ deploy.nginx = d /\ d \in deploy.running

\* C37: after a completed run NGINX routes to the deployment the script started
\* and health-checked, that deployment is running, and the deployment the
\* script stopped is the one that was active before.
C37_TrafficOnRunningDeployment ==
  Completed =>
    /\ deploy.nginx \in deploy.started
    /\ deploy.nginx \in deploy.checked
    /\ Serving(deploy.nginx)
    /\ deploy.stopped = {deploy.current}

\* C38: after a run that ended on the health-check timeout NGINX has not been
\* switched and the deployment that was active before is running and serving.
C38_RollbackKeepsOldServing ==
  (deploy.at = "exited" /\ deploy.timedOut) =>
    /\ deploy.code = Some(1)
    /\ deploy.nginx = deploy.current
    /\ Serving(deploy.current)

====
